---- MODULE Spec2Model ----
(***************************************************************************)
(* Model of the dispatch subsystem of multiscrap: the capability contract  *)
(* (workers/base_scraper.py), the handler registry (workers/registry.py)   *)
(* and the job consumer (workers/consumer.py).                             *)
(***************************************************************************)
EXTENDS Integers, Sequences, FiniteSets, TLC

\* Number of deliveries the broker hands to the consumer in one run.
MaxDeliveries == 2

(***************************************************************************)
(* Python / JSON values.  Every value is a record [t, v, f]: t is the      *)
(* type, v the text of a string or number, f the keys a JSON object        *)
(* carries with a truthy value.  Absent marks a key missing in an object.  *)
(***************************************************************************)
Str(s) == [t |-> "str", v |-> s, f |-> {}]

Num(s) == [t |-> "num", v |-> s, f |-> {}]

Null == [t |-> "null", v |-> "", f |-> {}]

List(s) == [t |-> "list", v |-> s, f |-> {}]

Obj(keys) == [t |-> "obj", v |-> "", f |-> keys]

Absent == [t |-> "absent", v |-> "", f |-> {}]

\* Python truth value of a JSON value (None, "", 0, [] and {} are falsy).
Truthy(x) ==
    CASE x.t = "str" -> x.v # ""
      [] x.t = "num" -> x.v # "0"
      [] x.t = "list" -> x.v # ""
      [] x.t = "obj" -> x.f # {}
      [] OTHER -> FALSE

\* Lists and dicts cannot be dictionary keys.
Hashable(x) == x.t \notin {"list", "obj"}

\* The outcome of a call: it returned val, or raised exc with message msg.
Return(val) == [exc |-> "none", msg |-> "", val |-> val]

\* str(e) of the AttributeError raised by x.get / x.metadata on a non-dict.
NoAttribute(x, attr) ==
    (CASE x.t = "list" -> "'list'"
       [] x.t = "str" -> "'str'"
       [] x.t = "num" -> "'int'"
       [] OTHER -> "'NoneType'") \o " object has no attribute '" \o attr \o "'"

(***************************************************************************)
(* ScraperResult, the standardized outcome of one handler invocation.      *)
(* data is [kind, sites]; metadata is [keys, available_actions, handler],  *)
(* handler being the keys whose value is still the one the handler set.    *)
(***************************************************************************)
None == "<None>"

NoData == [kind |-> "empty", sites |-> <<>>]

NoMetadata == [keys |-> {}, available_actions |-> <<>>, handler |-> {}]

ScraperResult(status, data, error, metadata) ==
    [status |-> status, data |-> data, error |-> error, metadata |-> metadata]

NoResult == ScraperResult("none", NoData, None, NoMetadata)

Raise(exc, msg) == [exc |-> exc, msg |-> msg, val |-> NoResult]

Statuses == {"completed", "failed", "partial", "pending"}

(***************************************************************************)
(* Handler classes.  dir(cls) lists the attributes of an instance in       *)
(* dir() order; each is [name, callable, private], private meaning the     *)
(* name starts with an underscore.  init is the exception the class's own  *)
(* __init__ raises, "none" when it only calls BaseScraper.__init__.        *)
(***************************************************************************)
Attr(name, isCallable, isPrivate) ==
    [name |-> name, callable |-> isCallable, private |-> isPrivate]

\* Attributes every BaseScraper instance has.
BaseAttrs ==
    << Attr("__repr__", TRUE, TRUE), Attr("execute", TRUE, FALSE),
       Attr("get_available_actions", TRUE, FALSE), Attr("logger", FALSE, FALSE) >>

OLXScraper ==
    [name |-> "OLXScraper", site_id |-> Str("olx"), init |-> "none",
     dir |-> << Attr("BASE_URL", FALSE, FALSE), BaseAttrs[1], BaseAttrs[2],
                Attr("get_ad_details", TRUE, FALSE), BaseAttrs[3], BaseAttrs[4],
                Attr("search_product", TRUE, FALSE), Attr("site_id", FALSE, FALSE) >>]

AmazonScraper ==
    [name |-> "AmazonScraper", site_id |-> Str("amazon"), init |-> "none",
     dir |-> << Attr("BASE_URL", FALSE, FALSE), BaseAttrs[1],
                Attr("_get_headers", TRUE, TRUE), Attr("_get_session", TRUE, TRUE),
                Attr("_refresh_session", TRUE, TRUE), Attr("_session", FALSE, TRUE),
                Attr("_user_agent", FALSE, TRUE), BaseAttrs[2], BaseAttrs[3],
                Attr("get_product_details", TRUE, FALSE), Attr("get_reviews", TRUE, FALSE),
                BaseAttrs[4], Attr("search_categories", TRUE, FALSE),
                Attr("search_product", TRUE, FALSE), Attr("site_id", FALSE, FALSE) >>]

\* The handler classes a registry can hold.
Classes == {OLXScraper, AmazonScraper}

\* Further subclasses of BaseScraper a caller may pass to register or place in
\* a scanned package: one that also declares site_id "olx", one that keeps
\* BaseScraper's site_id None, one whose site_id is the empty string.
OtherOLXScraper == [OLXScraper EXCEPT !.name = "OtherOLXScraper"]

NoIdScraper == [OLXScraper EXCEPT !.name = "NoIdScraper", !.site_id = Null]

EmptyIdScraper == [OLXScraper EXCEPT !.name = "EmptyIdScraper", !.site_id = Str("")]

\* A subclass with an identifier of its own whose __init__ raises.
BrokenInitScraper ==
    [OLXScraper EXCEPT !.name = "BrokenInitScraper", !.site_id = Str("broken"),
                       !.init = "RuntimeError"]

\* A handler whose search_product sets metadata of its own on its result.
TaggingScraper ==
    [name |-> "TaggingScraper", site_id |-> Str("tagging"), init |-> "none",
     dir |-> << BaseAttrs[1], Attr("_normalize", TRUE, TRUE), BaseAttrs[2], BaseAttrs[3],
                BaseAttrs[4], Attr("search_product", TRUE, FALSE),
                Attr("site_id", FALSE, FALSE) >>]

\* What the network does to a handler that fetches pages.
NetOutcomes == {"ok", "request_error", "crash"}

HandlerData == [kind |-> "handler", sites |-> <<>>]

\* payload.get(key) is truthy; raises AttributeError when payload is no dict.
payload_get(payload, key) ==
    IF payload.t # "obj" THEN Raise("AttributeError", NoAttribute(payload, "get"))
    ELSE [exc |-> "none", msg |-> "", val |-> NoResult, truthy |-> key \in payload.f]

OLX_search_product(payload) ==
    LET query == payload_get(payload, "query") IN
    IF query.exc # "none" THEN query
    ELSE IF ~query.truthy
         THEN Return(ScraperResult("failed", NoData, "Campo 'query' e obrigatorio", NoMetadata))
         ELSE Return(ScraperResult("completed", HandlerData, None, NoMetadata))

OLX_get_ad_details(payload) ==
    LET ad_id == payload_get(payload, "ad_id")
        url == payload_get(payload, "url") IN
    IF ad_id.exc # "none" THEN ad_id
    ELSE IF ~ad_id.truthy /\ ~url.truthy
         THEN Return(ScraperResult("failed", NoData,
                                   "Campo 'ad_id' ou 'url' e obrigatorio", NoMetadata))
         ELSE Return(ScraperResult("completed", HandlerData, None, NoMetadata))

Amazon_search_product(payload, net) ==
    LET query == payload_get(payload, "query") IN
    IF query.exc # "none" THEN query
    ELSE IF ~query.truthy
         THEN Return(ScraperResult("failed", NoData, "Campo 'query' e obrigatorio", NoMetadata))
    ELSE IF net = "crash" THEN Raise("Error", "playwright: browser launch failed")
    ELSE IF net = "request_error"
         THEN Return(ScraperResult("failed", NoData, "request failed", NoMetadata))
    ELSE Return(ScraperResult("completed", HandlerData, None, NoMetadata))

Amazon_pending(payload) ==
    Return(ScraperResult("pending", NoData, "Nao implementado", NoMetadata))

Tagging_search_product(payload) ==
    Return(ScraperResult("completed", HandlerData, None,
           [NoMetadata EXCEPT !.keys = {"source", "started_at"},
                              !.handler = {"source", "started_at"}]))

\* The body of search_categories is `...`: the call returns None.
Amazon_search_categories(payload) == Return(NoResult)

\* method(payload) for the attribute `name` of an instance of cls.
Invoke(cls, name, payload, net) ==
    CASE cls.name = "OLXScraper" /\ name = "search_product" -> OLX_search_product(payload)
      [] cls.name = "OLXScraper" /\ name = "get_ad_details" -> OLX_get_ad_details(payload)
      [] cls.name = "AmazonScraper" /\ name = "search_product" ->
            Amazon_search_product(payload, net)
      [] cls.name = "AmazonScraper" /\ name \in {"get_product_details", "get_reviews"} ->
            Amazon_pending(payload)
      [] cls.name = "AmazonScraper" /\ name = "search_categories" ->
            Amazon_search_categories(payload)
      [] cls.name = "TaggingScraper" /\ name = "search_product" ->
            Tagging_search_product(payload)
      [] name = "execute" ->
            Raise("TypeError", "execute() missing 1 required positional argument: 'payload'")
      [] OTHER ->
            Raise("TypeError", name \o "() takes 1 positional argument but 2 were given")

(***************************************************************************)
(* BaseScraper                                                             *)
(***************************************************************************)
RECURSIVE AttrNamed(_, _)
\* getattr(self, name): the attribute record, or Attr("", ..) when hasattr is false.
AttrNamed(attrs, name) ==
    IF attrs = <<>> THEN Attr("", FALSE, FALSE)
    ELSE IF Head(attrs).name = name THEN Head(attrs)
    ELSE AttrNamed(Tail(attrs), name)

hasattr(cls, name) == AttrNamed(cls.dir, name).name = name

IsAction(a) ==
    /\ ~a.private
    /\ a.callable
    /\ a.name \notin {"execute", "get_available_actions", "to_dict"}

RECURSIVE Names(_)
Names(attrs) ==
    IF attrs = <<>> THEN <<>> ELSE <<Head(attrs).name>> \o Names(Tail(attrs))

get_available_actions(cls) == Names(SelectSeq(cls.dir, IsAction))

\* BaseScraper.__init__
scraper_init(cls) ==
    IF cls.init # "none" THEN Raise(cls.init, cls.name \o " cannot be constructed")
    ELSE IF ~Truthy(cls.site_id)
    THEN Raise("ValueError", cls.name \o " deve definir site_id")
    ELSE Return(NoResult)

\* datetime.now(datetime.timezone.utc) where `datetime` is the class bound by
\* `from datetime import datetime`: the class has no attribute `timezone`.
now_timezone_utc ==
    Raise("AttributeError", "type object 'datetime.datetime' has no attribute 'timezone'")

TimingKeys == {"started_at", "completed_at", "duration_ms"}

\* The try block of execute: invoke the method, then merge the timing metadata.
execute_try(cls, action, payload, net) ==
    LET result == Invoke(cls, action, payload, net)
        completed_at == now_timezone_utc
        caught(msg) ==
            Return(ScraperResult("failed", NoData, msg,
                   [NoMetadata EXCEPT !.keys = {"started_at", "completed_at"}]))
    IN  IF result.exc # "none" THEN caught(result.msg)
        ELSE IF completed_at.exc # "none" THEN caught(completed_at.msg)
        ELSE IF result.val = NoResult THEN caught(NoAttribute(Null, "metadata"))
        ELSE Return([result.val EXCEPT !.metadata.keys = @ \cup TimingKeys,
                                       !.metadata.handler = @ \ TimingKeys])

execute(cls, action, payload, net) ==
    LET started_at == now_timezone_utc IN
    IF started_at.exc # "none" THEN started_at
    ELSE IF action.t # "str"
         THEN Raise("TypeError", "attribute name must be string")
    ELSE IF ~hasattr(cls, action.v)
         THEN Return(ScraperResult("failed", NoData,
                "Acao '" \o action.v \o "' nao suportada pelo scraper '"
                    \o cls.site_id.v \o "'",
                [NoMetadata EXCEPT !.keys = {"available_actions"},
                                   !.available_actions = get_available_actions(cls)]))
    ELSE IF ~AttrNamed(cls.dir, action.v).callable
         THEN Return(ScraperResult("failed", NoData,
                "'" \o action.v \o "' nao e um metodo valido", NoMetadata))
    ELSE execute_try(cls, action.v, payload, net)

\* Whether execute reaches method(payload) at line 81.
execute_invokes(cls, action) ==
    /\ now_timezone_utc.exc = "none"
    /\ action.t = "str"
    /\ hasattr(cls, action.v)
    /\ AttrNamed(cls.dir, action.v).callable

(***************************************************************************)
(* ScraperRegistry.  _scrapers is a dict: a sequence of [site_id, cls] in  *)
(* insertion order, one entry per key.                                     *)
(***************************************************************************)
RECURSIVE IndexOf(_, _, _)
\* Position of key in the dict from position i on, 0 when it is not a key.
IndexOf(d, key, i) ==
    IF i > Len(d) THEN 0
    ELSE IF d[i].site_id = key THEN i
    ELSE IndexOf(d, key, i + 1)

\* The warning register logs on a replacement: the names of both classes.
Warning(old, new) == [old |-> old, new |-> new]

NoWarning == Warning("", "")

\* Faulty variant of register: a registered site_id keeps its first class.
register_keep_first(d, cls) ==
    IF ~Truthy(cls.site_id)
    THEN [exc |-> "ValueError",
          msg |-> "Scraper " \o cls.name \o " nao tem site_id definido",
          scrapers |-> d, warning |-> NoWarning]
    ELSE LET i == IndexOf(d, cls.site_id.v, 1)
             entry == [site_id |-> cls.site_id.v, cls |-> cls]
         IN  [exc |-> "none", msg |-> "",
              scrapers |-> IF i > 0 THEN d ELSE Append(d, entry),
              warning |-> IF i > 0 THEN Warning(d[i].cls.name, cls.name) ELSE NoWarning]

\* Faulty variant of register: a class without site_id is registered all the same.
register_unchecked(d, cls) ==
    LET i == IndexOf(d, cls.site_id.v, 1)
        entry == [site_id |-> cls.site_id.v, cls |-> cls]
    IN  [exc |-> "none", msg |-> "",
         scrapers |-> IF i > 0 THEN [d EXCEPT ![i] = entry] ELSE Append(d, entry),
         warning |-> IF i > 0 THEN Warning(d[i].cls.name, cls.name) ELSE NoWarning]

\* Faulty variant of register: a replaced entry is deleted and inserted anew,
\* at the end.
register_reinsert(d, cls) ==
    IF ~Truthy(cls.site_id)
    THEN [exc |-> "ValueError",
          msg |-> "Scraper " \o cls.name \o " nao tem site_id definido",
          scrapers |-> d, warning |-> NoWarning]
    ELSE LET i == IndexOf(d, cls.site_id.v, 1)
             entry == [site_id |-> cls.site_id.v, cls |-> cls]
         IN  [exc |-> "none", msg |-> "",
              scrapers |-> IF i > 0
                           THEN SubSeq(d, 1, i - 1) \o SubSeq(d, i + 1, Len(d))
                                    \o <<entry>>
                           ELSE Append(d, entry),
              warning |-> IF i > 0 THEN Warning(d[i].cls.name, cls.name) ELSE NoWarning]

\* register(scraper_class): [exc, msg, scrapers, warning], scrapers being the
\* dict afterwards and warning what logger.warning was given.
register(d, cls) ==
    IF ~Truthy(cls.site_id)
    THEN [exc |-> "ValueError",
          msg |-> "Scraper " \o cls.name \o " nao tem site_id definido",
          scrapers |-> d, warning |-> NoWarning]
    ELSE LET i == IndexOf(d, cls.site_id.v, 1)
             entry == [site_id |-> cls.site_id.v, cls |-> cls]
         IN  [exc |-> "none", msg |-> "",
              scrapers |-> IF i > 0 THEN [d EXCEPT ![i] = entry] ELSE Append(d, entry),
              warning |-> IF i > 0 THEN Warning(d[i].cls.name, cls.name) ELSE NoWarning]

\* A module of the package discover scans: its name (private when it starts
\* with an underscore), the exception its import raises ("none" when it
\* loads), whether the package's __init__ imports it, and the BaseScraper
\* subclasses among dir(module), in dir order.
Module(name, error, eager, classes) ==
    [name |-> name, private |-> name \in {"_private"}, error |-> error,
     eager |-> eager, classes |-> classes]

\* The loop over dir(module) from its i-th class on; a register that raises
\* leaves the loop for the except clause of the module.
RECURSIVE discover_classes(_, _, _, _)
discover_classes(d, count, classes, i) ==
    IF i > Len(classes) THEN [scrapers |-> d, count |-> count]
    ELSE IF classes[i].site_id = Null
    THEN discover_classes(d, count, classes, i + 1)
    ELSE LET r == register(d, classes[i])
         IN  IF r.exc # "none" THEN [scrapers |-> d, count |-> count]
             ELSE discover_classes(r.scrapers, count + 1, classes, i + 1)

\* The loop over pkgutil.iter_modules from the k-th module on.
RECURSIVE discover_modules(_, _, _, _)
discover_modules(d, count, modules, k) ==
    IF k > Len(modules) THEN [exc |-> "none", scrapers |-> d, count |-> count]
    ELSE IF modules[k].private \/ modules[k].error # "none"
    THEN discover_modules(d, count, modules, k + 1)
    ELSE LET r == discover_classes(d, count, modules[k].classes, 1)
         IN  discover_modules(r.scrapers, r.count, modules, k + 1)

\* The exception of importlib.import_module(package_name): that of the first
\* module the package's __init__ imports and that fails to load.
RECURSIVE import_package(_, _)
import_package(modules, k) ==
    IF k > Len(modules) THEN "none"
    ELSE IF modules[k].eager /\ modules[k].error # "none" THEN modules[k].error
    ELSE import_package(modules, k + 1)

\* discover(package_name): [exc, scrapers, count].
discover(d, modules) ==
    LET imported == import_package(modules, 1)
    IN  IF imported = "ImportError" THEN [exc |-> "none", scrapers |-> d, count |-> 0]
        ELSE IF imported # "none" THEN [exc |-> imported, scrapers |-> d, count |-> 0]
        ELSE discover_modules(d, 0, modules, 1)

list_sites(d) == [i \in 1..Len(d) |-> d[i].site_id]

has(d, site_id) == IndexOf(d, site_id, 1) > 0

\* get(site_id): [exc, msg, found, cls]; found is FALSE when get returns None.
get(d, site_id) ==
    LET i == IF site_id.t = "str" THEN IndexOf(d, site_id.v, 1) ELSE 0
        none == [exc |-> "none", msg |-> "", found |-> FALSE, cls |-> OLXScraper]
    IN  IF ~Hashable(site_id)
        THEN [none EXCEPT !.exc = "TypeError", !.msg = "unhashable type: 'list'"]
        ELSE IF i = 0 THEN none
        ELSE LET made == scraper_init(d[i].cls) IN
             IF made.exc # "none"
             THEN [none EXCEPT !.exc = made.exc, !.msg = made.msg]
             ELSE [none EXCEPT !.found = TRUE, !.cls = d[i].cls]

\* get_scraper_info(site_id): [exc, found, info]; found is FALSE when it
\* returns None.
get_scraper_info(d, site_id) ==
    LET scraper == get(d, site_id)
        none == [exc |-> scraper.exc, found |-> FALSE,
                 info |-> [site_id |-> site_id, class_name |-> "",
                           available_actions |-> <<>>]]
    IN  IF scraper.exc # "none" \/ ~scraper.found THEN none
        ELSE [none EXCEPT !.found = TRUE,
                          !.info.class_name = scraper.cls.name,
                          !.info.available_actions = get_available_actions(scraper.cls)]

\* The module global _registry: id is 0 for None, else the number of the
\* ScraperRegistry object it holds; made counts the calls of ScraperRegistry(),
\* discovers the runs of discover, returned the objects get_registry returned.
NoRegistry == [id |-> 0, made |-> 0, discovers |-> 0, returned |-> {}]

\* get_registry() when `missing` is what its test of _registry gives:
\* [registry, scrapers, exc, count], scrapers the _scrapers of the object
\* _registry holds afterwards, count the runs of discover the call made.  The
\* global is assigned before discover runs, so it is kept when discover raises.
get_registry_when(missing, g, d, modules) ==
    IF missing
    THEN LET r == discover(<<>>, modules)
             made == [g EXCEPT !.id = g.made + 1, !.made = @ + 1, !.discovers = @ + 1]
         IN  [registry |-> IF r.exc = "none"
                           THEN [made EXCEPT !.returned = @ \cup {made.id}]
                           ELSE made,
              scrapers |-> r.scrapers, exc |-> r.exc, count |-> 1]
    ELSE [registry |-> [g EXCEPT !.returned = @ \cup {g.id}],
          scrapers |-> d, exc |-> "none", count |-> 0]

\* Faulty variant of get_registry: a registry that holds no class is taken for
\* a missing one (`if not _registry` on an object with __len__).
get_registry_if_empty(g, d, modules) ==
    get_registry_when(g.id = 0 \/ d = <<>>, g, d, modules)

\* get_registry(): `if _registry is None`.
get_registry(g, d, modules) == get_registry_when(g.id = 0, g, d, modules)

(***************************************************************************)
(* JobConsumer: message bodies                                             *)
(***************************************************************************)
\* A JSON document: a job object with its four keys (Absent when the key is
\* missing), or a value that is no object.
Job(job_id, site_id, action, payload) ==
    [t |-> "obj", job_id |-> job_id, site_id |-> site_id, action |-> action,
     payload |-> payload]

NonObject(t) ==
    [t |-> t, job_id |-> Absent, site_id |-> Absent, action |-> Absent,
     payload |-> Absent]

\* A message body: bytes that are not decodable text, text that is not JSON,
\* or the encoding of a JSON document.
Body(form, doc) == [form |-> form, doc |-> doc]

\* json.loads(body)
json_loads(body) ==
    CASE body.form = "undecodable" ->
            [exc |-> "UnicodeDecodeError", msg |-> "codec can't decode byte", doc |-> body.doc]
      [] body.form = "notjson" ->
            [exc |-> "JSONDecodeError", msg |-> "Expecting value: line 1 column 1 (char 0)",
             doc |-> body.doc]
      [] OTHER -> [exc |-> "none", msg |-> "", doc |-> body.doc]

\* Faulty variant of job_get: the default is ignored, a missing key gives None.
job_get_no_default(job, key, default) == IF job[key].t = "absent" THEN Null ELSE job[key]

\* job.get(key, default)
job_get(job, key, default) == IF job[key].t = "absent" THEN default ELSE job[key]

(***************************************************************************)
(* JobConsumer: results                                                    *)
(***************************************************************************)
JobResult(job_id, site_id, action, status, data, error, metadata) ==
    [job_id |-> job_id, site_id |-> site_id, action |-> action, status |-> status,
     data |-> data, error |-> error, metadata |-> metadata]

NoJobResult == JobResult(Absent, Absent, Absent, "none", NoData, None, NoMetadata)

ProcessedAt == [NoMetadata EXCEPT !.keys = {"processed_at"}]

\* Faulty variant of _create_error_result: extra is dropped, data is always {}.
create_error_result_no_extra(job_id, site_id, error, extra) ==
    JobResult(job_id, site_id, Absent, "failed", NoData, error, ProcessedAt)

\* Faulty variant of _create_error_result: the error is left at None.
create_error_result_no_error(job_id, site_id, error, extra) ==
    JobResult(job_id, site_id, Absent, "failed", extra, None, ProcessedAt)

\* _create_error_result: the dict has no "action" key; data is `extra or {}`.
create_error_result(job_id, site_id, error, extra) ==
    JobResult(job_id, site_id, Absent, "failed", extra, error, ProcessedAt)

\* The trace of process_job: what it returned or raised, and which steps ran.
\* action and payload are the arguments execute was called with.
Processed(exc, msg, val, looked_up, handler, executed) ==
    [exc |-> exc, msg |-> msg, val |-> val, looked_up |-> looked_up,
     handler |-> handler, executed |-> executed, action |-> Absent, payload |-> Absent]

\* process_job, lines 103-108: the job carries no usable site_id.
missing_site_result(job_id, site_id) ==
    create_error_result(job_id, site_id, "Campo 'site_id' e obrigatorio", NoData)

\* process_job, lines 112-118: the registry has no handler for site_id.
not_found_result(d, job_id, site_id) ==
    create_error_result(job_id, site_id,
        "Scraper nao encontrado para site_id '" \o site_id.v \o "'",
        [kind |-> "available_sites", sites |-> list_sites(d)])

\* process_job, lines 124-135: the envelope around what execute returned.
job_result(job_id, site_id, action, result) ==
    JobResult(job_id, site_id, action, result.status, result.data, result.error,
              [result.metadata EXCEPT !.keys = @ \cup {"processed_at"},
                                      !.handler = @ \ {"processed_at"}])

process_job(d, body, net) ==
    LET parsed == json_loads(body)
        job == parsed.doc
        job_id == job_get(job, "job_id", Str("unknown"))
        site_id == job_get(job, "site_id", Null)
        action == job_get(job, "action", Str("search_product"))
        payload == job_get(job, "payload", Obj({}))
        scraper == get(d, site_id)
        result == execute(scraper.cls, action, payload, net)
    IN  IF parsed.exc # "none"
        THEN Processed(parsed.exc, parsed.msg, NoJobResult, FALSE, "", FALSE)
        ELSE IF job.t # "obj"
        THEN Processed("AttributeError", NoAttribute(job, "get"),
                       NoJobResult, FALSE, "", FALSE)
        ELSE IF ~Truthy(site_id)
        THEN Processed("none", "", missing_site_result(job_id, site_id), FALSE, "", FALSE)
        ELSE IF scraper.exc # "none"
        THEN Processed(scraper.exc, scraper.msg, NoJobResult, TRUE, "", FALSE)
        ELSE IF ~scraper.found
        THEN Processed("none", "", not_found_result(d, job_id, site_id), TRUE, "", FALSE)
        ELSE IF result.exc # "none"
        THEN [Processed(result.exc, result.msg, NoJobResult, TRUE, scraper.cls.name, TRUE)
                EXCEPT !.action = action, !.payload = payload]
        ELSE [Processed("none", "", job_result(job_id, site_id, action, result.val),
                        TRUE, scraper.cls.name, TRUE)
                EXCEPT !.action = action, !.payload = payload]

(***************************************************************************)
(* JobConsumer: broker calls and on_message                                *)
(***************************************************************************)
jobs_exchange == "jobs.exchange"

results_exchange == "results.exchange"

\* One call on the channel; ok is FALSE when the call raised.
Publish(result, ok) ==
    [op |-> "publish", ok |-> ok, requeue |-> FALSE, result |-> result,
     exchange |-> results_exchange]

Ack(ok) ==
    [op |-> "ack", ok |-> ok, requeue |-> FALSE, result |-> NoJobResult, exchange |-> ""]

Nack(requeue, ok) ==
    [op |-> "nack", ok |-> ok, requeue |-> requeue, result |-> NoJobResult,
     exchange |-> ""]

\* Which channel calls of one delivery raise: the first and the second
\* basic_publish, the basic_ack, the basic_nack.
Faults == [publish : [1..2 -> BOOLEAN], ack : BOOLEAN, nack : BOOLEAN]

NoFaults == [publish |-> [i \in 1..2 |-> FALSE], ack |-> FALSE, nack |-> FALSE]

BrokerError == "AMQPError"

\* publish_result(result) as the n-th basic_publish of the delivery.
publish_result(result, n, faults) == Publish(result, ~faults.publish[n])

\* What one on_message call did: the channel calls in order and the exception
\* that escaped the callback ("none" when it returned).
Handled(processed, calls, escaped) ==
    [processed |-> processed, calls |-> calls, escaped |-> escaped]

\* Faulty variant of on_json_error: basic_nack with requeue left at True.
on_json_error_requeue(processed, faults) ==
    Handled(processed, <<Nack(TRUE, ~faults.nack)>>,
            IF faults.nack THEN BrokerError ELSE "none")

\* except json.JSONDecodeError
on_json_error(processed, faults) ==
    Handled(processed, <<Nack(FALSE, ~faults.nack)>>,
            IF faults.nack THEN BrokerError ELSE "none")

\* Faulty variant of on_exception: the error result always carries "unknown".
on_exception_unknown_id(processed, calls, published, job_id, msg, faults) ==
    LET error_result == create_error_result(Str("unknown"), Null, msg, NoData)
        pub == publish_result(error_result, published + 1, faults)
    IN  IF ~pub.ok THEN Handled(processed, calls \o <<pub>>, BrokerError)
        ELSE Handled(processed, calls \o <<pub, Nack(FALSE, ~faults.nack)>>,
                     IF faults.nack THEN BrokerError ELSE "none")

\* Faulty variant of on_exception: the delivery is acknowledged after the error
\* result is published.
on_exception_ack(processed, calls, published, job_id, msg, faults) ==
    LET error_result == create_error_result(job_id, Null, msg, NoData)
        pub == publish_result(error_result, published + 1, faults)
    IN  IF ~pub.ok THEN Handled(processed, calls \o <<pub>>, BrokerError)
        ELSE Handled(processed, calls \o <<pub, Ack(~faults.nack)>>,
                     IF faults.nack THEN BrokerError ELSE "none")

\* Faulty variant of on_exception: basic_nack with requeue left at True.
on_exception_requeue(processed, calls, published, job_id, msg, faults) ==
    LET error_result == create_error_result(job_id, Null, msg, NoData)
        pub == publish_result(error_result, published + 1, faults)
    IN  IF ~pub.ok THEN Handled(processed, calls \o <<pub>>, BrokerError)
        ELSE Handled(processed, calls \o <<pub, Nack(TRUE, ~faults.nack)>>,
                     IF faults.nack THEN BrokerError ELSE "none")

\* except Exception, entered after `calls`, of which published were basic_publish.
on_exception(processed, calls, published, job_id, msg, faults) ==
    LET error_result == create_error_result(job_id, Null, msg, NoData)
        pub == publish_result(error_result, published + 1, faults)
    IN  IF ~pub.ok THEN Handled(processed, calls \o <<pub>>, BrokerError)
        ELSE Handled(processed, calls \o <<pub, Nack(FALSE, ~faults.nack)>>,
                     IF faults.nack THEN BrokerError ELSE "none")

\* Faulty variant of on_message: the delivery is acknowledged before the result
\* is published.
on_message_ack_first(processed, faults) ==
    LET result == processed.val
        pub == publish_result(result, 1, faults)
    IN  IF processed.exc = "JSONDecodeError" THEN on_json_error(processed, faults)
        ELSE IF processed.exc # "none"
        THEN on_exception(processed, <<>>, 0, Str("unknown"), processed.msg, faults)
        ELSE IF faults.ack
        THEN on_exception(processed, <<Ack(FALSE)>>, 0, result.job_id,
                          "broker I/O error", faults)
        ELSE IF ~pub.ok
        THEN on_exception(processed, <<Ack(TRUE), pub>>, 1, result.job_id,
                          "broker I/O error", faults)
        ELSE Handled(processed, <<Ack(TRUE), pub>>, "none")

\* on_message, given what self.process_job(body) did at line 180.
on_message(processed, faults) ==
    LET result == processed.val
        pub == publish_result(result, 1, faults)
    IN  IF processed.exc = "JSONDecodeError" THEN on_json_error(processed, faults)
        ELSE IF processed.exc # "none"
        THEN on_exception(processed, <<>>, 0, Str("unknown"), processed.msg, faults)
        ELSE IF ~pub.ok
        THEN on_exception(processed, <<pub>>, 1, result.job_id, "broker I/O error", faults)
        ELSE IF faults.ack
        THEN on_exception(processed, <<pub, Ack(FALSE)>>, 1, result.job_id,
                          "broker I/O error", faults)
        ELSE Handled(processed, <<pub, Ack(TRUE)>>, "none")

(***************************************************************************)
(* The inputs of one run                                                   *)
(***************************************************************************)
JobIds == {Absent, Str("j1")}

\* site_id values that select no handler of Classes, and those that may.
OtherSiteIds == {Absent, Null, Str(""), Str("x"), List("x")}

ClassSiteIds == {cls.site_id : cls \in Classes}

Actions == {Absent, Str("search_product"), Str("get_ad_details"), Str("other"),
            Str("site_id")}

Payloads == {Absent, Obj({"query"}), List("x")}

Bodies ==
    {Body("undecodable", NonObject("null")), Body("notjson", NonObject("null"))}
    \cup {Body("json", NonObject(t)) : t \in {"list", "str", "num", "null"}}
    \cup {Body("json", Job(j, s, a, Absent)) :
            j \in JobIds, s \in OtherSiteIds, a \in {Absent, Str("other")}}
    \cup {Body("json", Job(j, s, a, p)) :
            j \in JobIds, s \in ClassSiteIds, a \in Actions, p \in Payloads}

\* The network only matters to a handler that fetches pages.
NetFor(body) == IF body.doc.site_id = Str("amazon") THEN NetOutcomes ELSE {"ok"}

(***************************************************************************)
(* State                                                                   *)
(***************************************************************************)
VARIABLES
    registry,   \* the module global _registry and what get_registry did with it
    scrapers,   \* ScraperRegistry._scrapers
    reg,        \* the latest call on the registry, what it was given and gave
    instances,  \* the handler objects registry.get has returned to its caller
    call,       \* the latest job dispatched to a handler on its own
    state,      \* where JobConsumer is: "init" (constructed), "connecting"
                \* (inside connect), "failed" (start raised out of connect),
                \* "ready" (start_consuming waits for a delivery), "callback"
                \* (on_message has ended), "draining" (stop_consuming), "closed"
    link,       \* the broker connection: [conn, setup, failed, consumer, prefetch]
    tag,        \* delivery tag of the latest delivery the broker handed over
    inbox,      \* deliveries handed over on which on_message has not run yet
    unacked,    \* deliveries handed over and neither acked nor nacked
    delivery    \* the latest delivery: its inputs and what on_message did

vars == <<registry, scrapers, reg, instances, call, state, link, tag, inbox, unacked, delivery>>

\* For get the argument is in arg, the class bound to it in cls, and count is
\* 1 when an object was returned, 0 when None was.
RegistryCall(op, cls, modules, before, exc, warning, count) ==
    [op |-> op, cls |-> cls, modules |-> modules, before |-> before, exc |-> exc,
     warning |-> warning, count |-> count, arg |-> Null]

\* A job for cls dispatched on its own: the arguments of execute, whether it
\* reached the operation, what it returned or raised, and the result published.
ExecuteCall(op, cls, action, payload, net, invoked, ret, published) ==
    [op |-> op, cls |-> cls, action |-> action, payload |-> payload, net |-> net,
     invoked |-> invoked, ret |-> ret, published |-> published]

NoExecute ==
    ExecuteCall("none", OLXScraper, Absent, Absent, "ok", FALSE, Return(NoResult),
                NoJobResult)

NoCall == RegistryCall("none", OLXScraper, <<>>, <<>>, "none", NoWarning, 0)

NoDelivery ==
    [body |-> Body("notjson", NonObject("null")), net |-> "ok", faults |-> NoFaults,
     processed |-> Processed("none", "", NoJobResult, FALSE, "", FALSE),
     calls |-> <<>>, escaped |-> "none"]

\* The calls of connect, in order.
ConnectCalls ==
    << "BlockingConnection", "channel", "exchange_declare jobs.exchange",
       "exchange_declare results.exchange", "queue_declare", "queue_bind", "basic_qos" >>

\* basic_qos(prefetch_count=1)
PrefetchCount == 1

\* No connection yet; prefetch 0 is the broker's default, no limit.
NoLink == [conn |-> "none", setup |-> 0, failed |-> 0, consumer |-> FALSE, prefetch |-> 0]

Init ==
    /\ registry = NoRegistry
    /\ scrapers = <<>>
    /\ reg = NoCall
    /\ instances = <<>>
    /\ call = NoExecute
    /\ state = "init"
    /\ link = NoLink
    /\ tag = 0
    /\ inbox = 0
    /\ unacked = 0
    /\ delivery = NoDelivery

\* registry.register(cls) while the registry is being populated at startup.
Register(cls) ==
    /\ state = "init"
    /\ scrapers' = register(scrapers, cls).scrapers
    /\ UNCHANGED <<registry, call, reg, instances, state, link, tag, inbox, unacked, delivery>>

\* Faulty variant of connect_step: basic_qos is left out.
connect_step_no_qos(l, ok) ==
    IF ~ok THEN [l EXCEPT !.failed = l.setup + 1]
    ELSE [l EXCEPT !.setup = @ + 1, !.conn = "open"]

\* The next call of connect on link l: it raises (ok is FALSE), or it takes
\* effect.  The first call opens the connection, the last sets the prefetch.
connect_step(l, ok) ==
    IF ~ok THEN [l EXCEPT !.failed = l.setup + 1]
    ELSE [l EXCEPT !.setup = @ + 1,
                   !.conn = "open",
                   !.prefetch = IF ConnectCalls[l.setup + 1] = "basic_qos"
                                THEN PrefetchCount ELSE @]

\* Faulty variant of Connect: a failed call is tried again.
Connect_retry(ok) ==
    /\ state \in {"init", "connecting"}
    /\ link.setup < Len(ConnectCalls)
    /\ link' = connect_step(link, ok)
    /\ state' = "connecting"
    /\ UNCHANGED <<registry, call, scrapers, reg, instances, tag, inbox, unacked, delivery>>

\* start calls connect, which makes its next call; an exception of that call
\* leaves connect and start (line 211 is outside the try of start).
Connect(ok) ==
    /\ state \in {"init", "connecting"}
    /\ link.setup < Len(ConnectCalls)
    /\ link' = connect_step(link, ok)
    /\ state' = IF ok THEN "connecting" ELSE "failed"
    /\ UNCHANGED <<registry, call, scrapers, reg, instances, tag, inbox, unacked, delivery>>

\* Faulty variant of Start: the callback is registered as soon as the channel
\* exists.
Start_early ==
    /\ state = "connecting"
    /\ link.setup >= Len(<<"BlockingConnection", "channel">>)
    /\ link' = [link EXCEPT !.consumer = TRUE]
    /\ state' = "ready"
    /\ UNCHANGED <<registry, call, scrapers, reg, instances, tag, inbox, unacked, delivery>>

\* JobConsumer.start after connect returned: basic_consume, then start_consuming.
Start ==
    /\ state = "connecting"
    /\ link.setup = Len(ConnectCalls)
    /\ link' = [link EXCEPT !.consumer = TRUE]
    /\ state' = "ready"
    /\ UNCHANGED <<registry, call, scrapers, reg, instances, tag, inbox, unacked, delivery>>

\* The broker's delivery rule: with a prefetch limit it hands a consumer no
\* delivery while that many are unacknowledged.
CanDeliver(l, n) == l.consumer /\ l.conn = "open" /\ (l.prefetch = 0 \/ n < l.prefetch)

\* The broker hands the consumer one delivery.
Deliver ==
    /\ state \in {"ready", "callback"}
    /\ tag < MaxDeliveries
    /\ CanDeliver(link, unacked)
    /\ tag' = tag + 1
    /\ inbox' = inbox + 1
    /\ unacked' = unacked + 1
    /\ UNCHANGED <<registry, call, scrapers, reg, instances, state, link, delivery>>

\* The number of channel calls of kind op among calls.
CallCount(calls, op) == Cardinality({i \in 1..Len(calls) : calls[i].op = op})

\* A fault plan names only calls that on_message makes: a fault on a call that
\* is never made is the same input as no fault.
FaultsUsed(calls, faults) ==
    /\ \A n \in 1..2 : faults.publish[n] => CallCount(calls, "publish") >= n
    /\ faults.ack => CallCount(calls, "ack") > 0
    /\ faults.nack => CallCount(calls, "nack") > 0

\* The broker took an ack or a nack among calls.
Settled(calls) == \E i \in 1..Len(calls) : calls[i].op \in {"ack", "nack"} /\ calls[i].ok

\* Faulty variant of scrapers_after_get: the class found is taken out of the
\* registry, as _scrapers.pop(site_id) would.
scrapers_after_pop(d, site_id) ==
    SelectSeq(d, LAMBDA e : site_id.t # "str" \/ e.site_id # site_id.v)

\* ScraperRegistry._scrapers after get(site_id): _scrapers.get(site_id) reads
\* the dict, and scraper_class() builds an object without touching it.
scrapers_after_get(d, site_id) == d

\* start_consuming runs on_message on a delivery.  SIGINT may arrive while it
\* runs: KeyboardInterrupt is no Exception, so it leaves on_message after the
\* first `made` channel calls; made = Len(handled.calls) is a run to the end.
OnMessage(body, net, faults) ==
    /\ state = "ready"
    /\ inbox > 0
    /\ scrapers' = IF process_job(scrapers, body, net).looked_up
                   THEN scrapers_after_get(scrapers, job_get(body.doc, "site_id", Null))
                   ELSE scrapers
    /\ \E processed \in {process_job(scrapers, body, net)} :
       \E handled \in {on_message(processed, faults)} :
       \E made \in 0..Len(handled.calls) :
       \E calls \in {SubSeq(handled.calls, 1, made)} :
       /\ FaultsUsed(calls, faults)
       /\ delivery' = [body |-> body, net |-> net, faults |-> faults,
                       processed |-> handled.processed,
                       calls |-> calls,
                       escaped |-> IF made < Len(handled.calls)
                                   THEN "KeyboardInterrupt" ELSE handled.escaped]
       /\ unacked' = IF Settled(calls) THEN unacked - 1 ELSE unacked
    /\ inbox' = inbox - 1
    /\ state' = "callback"
    /\ UNCHANGED <<registry, call, reg, instances, link, tag>>

\* on_message returned: start_consuming waits for the next delivery.
NextDelivery ==
    /\ state = "callback"
    /\ delivery.escaped = "none"
    /\ state' = "ready"
    /\ delivery' = NoDelivery
    /\ UNCHANGED <<registry, call, scrapers, reg, instances, link, tag, inbox, unacked>>

\* An exception left on_message: it leaves start_consuming, and the finally
\* clause of start closes the connection.
Crash ==
    /\ state = "callback"
    /\ delivery.escaped \notin {"none", "KeyboardInterrupt"}
    /\ state' = "closed"
    /\ link' = [link EXCEPT !.conn = "closed", !.consumer = FALSE]
    /\ UNCHANGED <<registry, call, scrapers, reg, instances, tag, inbox, unacked, delivery>>

\* KeyboardInterrupt leaves start_consuming, while it waits or out of
\* on_message: start calls stop_consuming.
Interrupt ==
    /\ \/ state = "ready"
       \/ state = "callback" /\ delivery.escaped = "KeyboardInterrupt"
    /\ state' = "draining"
    /\ link' = [link EXCEPT !.consumer = FALSE]
    /\ UNCHANGED <<registry, call, scrapers, reg, instances, tag, inbox, unacked, delivery>>

\* The finally clause of start after stop_consuming: connection.close().
Close ==
    /\ state = "draining"
    /\ state' = "closed"
    /\ link' = [link EXCEPT !.conn = "closed"]
    /\ UNCHANGED <<registry, call, scrapers, reg, instances, tag, inbox, unacked, delivery>>

Next ==
    \/ \E cls \in Classes : Register(cls)
    \/ \E ok \in BOOLEAN : Connect(ok)
    \/ Start
    \/ Deliver
    \/ \E body \in Bodies : \E net \in NetFor(body) : \E faults \in Faults :
          OnMessage(body, net, faults)
    \/ NextDelivery
    \/ Crash
    \/ Interrupt
    \/ Close

Spec == Init /\ [][Next]_vars

(***************************************************************************)
(* The registry on its own: calls of register and discover in any order.   *)
(***************************************************************************)
RegClasses ==
    Classes \cup {OtherOLXScraper, NoIdScraper, EmptyIdScraper, BrokenInitScraper}

\* Number of objects a caller obtains from get in one run.
MaxInstances == 2

\* The identifiers get is called with.
GetArgs == {Str("olx"), Str("amazon"), Str("broken"), Str("x")}

\* Faulty variant of new_instance: one object per class is kept and returned
\* again.
cached_instance(cls, made) ==
    IF \E i \in 1..Len(made) : made[i].cls = cls
    THEN made[CHOOSE i \in 1..Len(made) : made[i].cls = cls]
    ELSE [cls |-> cls, id |-> Len(made) + 1]

\* scraper_class(): a new object, distinct from every object made before.
new_instance(cls, made) == [cls |-> cls, id |-> Len(made) + 1]

amazon_module == Module("amazon", "none", TRUE, <<AmazonScraper>>)

olx_module == Module("olx", "none", TRUE, <<OLXScraper>>)

\* The packages discover is run on.
Sources ==
    { <<amazon_module, olx_module>>,
      <<amazon_module, Module("broken", "Exception", FALSE, <<>>), olx_module>>,
      <<amazon_module, Module("mercadolivre", "ImportError", TRUE, <<>>), olx_module>>,
      <<amazon_module, Module("mercadolivre", "Exception", TRUE, <<>>), olx_module>>,
      <<amazon_module, Module("mixed", "none", FALSE, <<EmptyIdScraper, OLXScraper>>)>>,
      <<Module("abstract", "none", FALSE, <<NoIdScraper, OtherOLXScraper>>)>>,
      <<Module("_private", "none", FALSE, <<OLXScraper>>), amazon_module>>,
      <<Module("amazon", "none", TRUE, <<AmazonScraper, OLXScraper>>), olx_module>> }

\* A call of registry.register(cls).
RegistryRegister(cls) ==
    /\ state = "init"
    /\ \E r \in {register(scrapers, cls)} :
          /\ scrapers' = r.scrapers
          /\ reg' = RegistryCall("register", cls, <<>>, scrapers, r.exc, r.warning, 0)
    /\ UNCHANGED <<registry, call, instances, state, link, tag, inbox, unacked, delivery>>

\* A call of registry.discover(package_name).
Discover(modules) ==
    /\ state = "init"
    /\ \E r \in {discover(scrapers, modules)} :
          /\ scrapers' = r.scrapers
          /\ reg' = RegistryCall("discover", OLXScraper, modules, scrapers, r.exc,
                                 NoWarning, r.count)
    /\ UNCHANGED <<registry, call, instances, state, link, tag, inbox, unacked, delivery>>

\* A call of registry.get(site_id) by a caller that keeps what it returns.
RegistryGet(site_id) ==
    /\ state = "init"
    /\ Len(instances) < MaxInstances
    /\ \E r \in {get(scrapers, site_id)} :
          /\ instances' = IF r.found
                           THEN Append(instances, new_instance(r.cls, instances))
                           ELSE instances
          /\ reg' = [RegistryCall("get", r.cls, <<>>, scrapers, r.exc, NoWarning,
                                  IF r.found THEN 1 ELSE 0) EXCEPT !.arg = site_id]
    /\ UNCHANGED <<registry, call, scrapers, state, link, tag, inbox, unacked, delivery>>

\* A call of get_registry().  The first one makes the registry of the process,
\* so it comes before any other call on that registry.
GetRegistry(modules) ==
    /\ state = "init"
    /\ registry.id # 0 \/ reg = NoCall
    /\ \E r \in {get_registry(registry, scrapers, modules)} :
          /\ registry' = r.registry
          /\ scrapers' = r.scrapers
          /\ reg' = RegistryCall("get_registry", OLXScraper, modules, scrapers, r.exc,
                                 NoWarning, r.count)
    /\ UNCHANGED <<call, instances, state, link, tag, inbox, unacked, delivery>>

NextRegistry ==
    \/ \E cls \in RegClasses : RegistryRegister(cls)
    \/ \E modules \in Sources : GetRegistry(modules)
    \/ \E modules \in Sources : Discover(modules)
    \/ \E site_id \in GetArgs : RegistryGet(site_id)

SpecRegistry == Init /\ [][NextRegistry]_vars

(***************************************************************************)
(* One handler on its own: jobs with job_id "j1" for a registered class,   *)
(* with any action name, dispatched while the broker accepts every call.   *)
(***************************************************************************)
ExecClasses == Classes \cup {TaggingScraper}

ExecActions ==
    { Str("search_product"), Str("get_ad_details"), Str("get_product_details"),
      Str("search_categories"), Str("other"), Str("site_id"), Str("logger"),
      Str("execute"), Str("get_available_actions"), Str("_get_headers"),
      Str("__repr__"), Null }

ExecPayloads == {Obj({}), Obj({"query"}), List("x")}

Dispatch(cls, action, payload, net) ==
    /\ state = "init"
    /\ \E ret \in {execute(cls, action, payload, net)} :
       \E processed \in {process_job(<<[site_id |-> cls.site_id.v, cls |-> cls]>>,
                                     Body("json", Job(Str("j1"), cls.site_id, action,
                                                      payload)),
                                     net)} :
       \E handled \in {on_message(processed, NoFaults)} :
          call' = ExecuteCall("execute", cls, action, payload, net,
                              execute_invokes(cls, action), ret,
                              handled.calls[1].result)
    /\ UNCHANGED <<registry, scrapers, reg, instances, state, link, tag, inbox, unacked, delivery>>

NextExecute ==
    \E cls \in ExecClasses : \E action \in ExecActions : \E payload \in ExecPayloads :
    \E net \in NetOutcomes : Dispatch(cls, action, payload, net)

SpecExecute == Init /\ [][NextExecute]_vars

(***************************************************************************)
(* Properties.  They speak of the delivery on which on_message has just    *)
(* run to its end (state = "callback", no SIGINT while it ran).            *)
(***************************************************************************)
Ended == state = "callback" /\ delivery.escaped # "KeyboardInterrupt"

TheJob == delivery.body.doc

IsJob == delivery.body.form = "json" /\ TheJob.t = "obj"

\* The job's fields, where present, have the types of the Job structure.
WellFormed ==
    /\ IsJob
    /\ TheJob.job_id.t \in {"absent", "str"}
    /\ TheJob.site_id.t \in {"absent", "str"}
    /\ TheJob.action.t \in {"absent", "str"}
    /\ TheJob.payload.t \in {"absent", "obj"}

JobId == job_get(TheJob, "job_id", Str("unknown"))

JobAction == job_get(TheJob, "action", Str("search_product"))

JobPayload == job_get(TheJob, "payload", Obj({}))

Registered ==
    /\ TheJob.site_id.t = "str"
    /\ \E i \in 1..Len(scrapers) : scrapers[i].site_id = TheJob.site_id.v

\* The class registered for the job's site_id.
Handler ==
    scrapers[CHOOSE i \in 1..Len(scrapers) : scrapers[i].site_id = TheJob.site_id.v].cls

InSeq(x, seq) == \E i \in 1..Len(seq) : seq[i] = x

Supported == JobAction.t = "str" /\ InSeq(JobAction.v, get_available_actions(Handler))

\* No channel call of the delivery raises.
BrokerOk == delivery.faults = NoFaults

Calls == delivery.calls

\* The number of results the results exchange received for the delivery.
PublishedCount ==
    Cardinality({k \in 1..Len(Calls) : Calls[k].op = "publish" /\ Calls[k].ok})

\* on_message made exactly the calls: publish r (accepted), then ack (accepted).
PublishedAndAcked ==
    /\ Len(Calls) = 2
    /\ Calls[1].op = "publish" /\ Calls[1].ok
    /\ Calls[2] = Ack(TRUE)

\* C1: a well-formed job for a registered site and a supported action is
\* answered by exactly one result that carries the job's job_id, site_id and
\* action and the status, data and error the operation returned, and is then
\* acknowledged, never rejected.
C1_Claim ==
    (Ended /\ WellFormed /\ Registered /\ Supported /\ BrokerOk) =>
        LET op == Invoke(Handler, JobAction.v, JobPayload, delivery.net)
            r == Calls[1].result
        IN  /\ PublishedAndAcked
            /\ r.job_id = JobId /\ r.site_id = TheJob.site_id /\ r.action = JobAction
            /\ (op.exc = "none" /\ op.val # NoResult) =>
                  /\ r.status = op.val.status
                  /\ r.data = op.val.data
                  /\ r.error = op.val.error

\* C2: whenever process_job calls execute, execute does not raise and returns
\* a result whose status is one of completed, failed, partial, pending.
C2_Claim ==
    (Ended /\ delivery.processed.executed) =>
        LET r == execute(Handler, JobAction, JobPayload, delivery.net)
        IN  r.exc = "none" /\ r.val.status \in Statuses

\* C3: on every delivery exactly one of basic_ack and basic_nack is issued,
\* whatever fails during processing.
C3_Claim ==
    Ended => CallCount(Calls, "ack") + CallCount(Calls, "nack") = 1

\* C4: for a body that is text but not JSON, on_message publishes nothing,
\* never acks, and issues exactly one basic_nack with requeue=False.
C4_Thm ==
    (Ended /\ delivery.body.form = "notjson") =>
        /\ Len(Calls) = 1
        /\ Calls[1].op = "nack"
        /\ ~Calls[1].requeue

C4_Witness ==
    Ended /\ delivery.body.form = "notjson" /\ Calls = <<Nack(FALSE, TRUE)>>

\* C5: for a body that is JSON but no object, or bytes that are no text,
\* nothing is published and the delivery is rejected without requeue.
C5_Claim ==
    (Ended /\ (delivery.body.form = "undecodable"
               \/ (delivery.body.form = "json" /\ TheJob.t # "obj"))) =>
        /\ CallCount(Calls, "publish") = 0
        /\ CallCount(Calls, "ack") = 0
        /\ CallCount(Calls, "nack") = 1
        /\ \A i \in 1..Len(Calls) : ~Calls[i].requeue

\* C6: a job without site_id is answered, without any registry lookup or
\* handler call, by a failed result whose error names the site_id field; when
\* the broker accepts the calls this is the only result, it is followed by the
\* ack, and there is no nack.
C6_Thm ==
    (Ended /\ IsJob /\ TheJob.site_id.t = "absent") =>
        /\ ~delivery.processed.looked_up
        /\ ~delivery.processed.executed
        /\ Calls[1].op = "publish"
        /\ Calls[1].result.status = "failed"
        /\ Calls[1].result.error = "Campo 'site_id' e obrigatorio"
        /\ Calls[1].result.job_id = JobId
        /\ BrokerOk => PublishedAndAcked

C6_Witness ==
    /\ Ended /\ WellFormed /\ TheJob.site_id.t = "absent" /\ BrokerOk
    /\ PublishedAndAcked
    /\ Calls[1].result.status = "failed"

\* C7: a job whose site_id is a non-empty string that is not registered is
\* answered by a failed result that echoes job_id and site_id and whose data
\* holds the registered identifiers in registry order; when the broker accepts
\* the calls the delivery is acknowledged and not rejected.
C7_Thm ==
    (Ended /\ IsJob /\ TheJob.site_id.t = "str" /\ TheJob.site_id.v # ""
           /\ ~Registered) =>
        /\ Calls[1].op = "publish"
        /\ Calls[1].result.status = "failed"
        /\ Calls[1].result.job_id = JobId
        /\ Calls[1].result.site_id = TheJob.site_id
        /\ Calls[1].result.data.kind = "available_sites"
        /\ Calls[1].result.data.sites = [i \in 1..Len(scrapers) |-> scrapers[i].site_id]
        /\ BrokerOk => PublishedAndAcked

C7_Witness ==
    /\ Ended /\ WellFormed /\ TheJob.site_id = Str("x") /\ BrokerOk
    /\ Len(scrapers) = 2
    /\ PublishedAndAcked
    /\ Calls[1].result.data.sites = <<"amazon", "olx">>

\* The operation the job names raises when it is called with the payload.
OperationRaises ==
    /\ IsJob /\ Registered /\ Supported
    /\ Invoke(Handler, JobAction.v, JobPayload, delivery.net).exc # "none"

\* C8: when the operation raises, the one published result has status failed
\* and the exception's message as error, and the delivery is acknowledged.
C8_Claim ==
    (Ended /\ OperationRaises /\ BrokerOk) =>
        /\ PublishedAndAcked
        /\ Calls[1].result.status = "failed"
        /\ Calls[1].result.error =
              Invoke(Handler, JobAction.v, JobPayload, delivery.net).msg

\* C9: an action the registered handler does not have is answered by a failed
\* result that lists the handler's actions, and the delivery is acknowledged.
C9_Claim ==
    (Ended /\ WellFormed /\ Registered /\ ~hasattr(Handler, JobAction.v) /\ BrokerOk) =>
        /\ PublishedAndAcked
        /\ Calls[1].result.status = "failed"
        /\ Calls[1].result.metadata.available_actions = get_available_actions(Handler)

\* C10: the results exchange receives at most one result per delivery.
C10_Claim == Ended => PublishedCount <= 1

\* The results handed to basic_publish for the delivery, accepted or not.
PublishCalls == {i \in 1..Len(Calls) : Calls[i].op = "publish"}

\* C11: every result published for a job whose message carries job_id J has
\* job_id J, on every path; "unknown" appears only when the message carries no
\* job_id.
C11_Claim ==
    (Ended /\ IsJob) => \A i \in PublishCalls : Calls[i].result.job_id = JobId

\* C11 (amended): a result published after process_job returned, the error
\* result after a failed publish or ack included, has the job's job_id
\* ("unknown" when the message has none); a result published after process_job
\* raised has job_id "unknown" whatever the message carries.
C11_Thm ==
    (Ended /\ IsJob) =>
        \A i \in PublishCalls :
            Calls[i].result.job_id =
                IF delivery.processed.exc = "none" THEN JobId ELSE Str("unknown")

C11_Witness ==
    /\ Ended /\ IsJob /\ TheJob.job_id = Str("j1")
    /\ delivery.processed.exc # "none"
    /\ Calls[1].op = "publish" /\ Calls[1].ok
    /\ Calls[1].result.job_id = Str("unknown")

\* C12: a basic_ack is preceded by exactly one basic_publish, which the broker
\* accepted; after a basic_publish that raised there is no ack and the same
\* result is not published again.
C12_Thm ==
    state = "callback" =>
        \A i \in 1..Len(Calls) :
            /\ Calls[i].op = "ack" =>
                  /\ {k \in PublishCalls : k < i} = {1}
                  /\ Calls[1].ok
            /\ (Calls[i].op = "publish" /\ ~Calls[i].ok) =>
                  \A j \in (i + 1)..Len(Calls) :
                      /\ Calls[j].op # "ack"
                      /\ Calls[j].op = "publish" => Calls[j].result # Calls[i].result

C12_Witness ==
    /\ Ended /\ IsJob
    /\ Len(Calls) = 2 /\ Calls[1].op = "publish" /\ Calls[1].ok /\ Calls[2] = Ack(TRUE)

\* An exception other than a deserialization failure reached the except
\* Exception clause of on_message: process_job raised it, or a channel call did.
ExceptionEscapes ==
    /\ IsJob
    /\ \/ delivery.processed.exc # "none"
       \/ delivery.faults.publish[1]
       \/ delivery.faults.ack

\* C13: when such an exception escapes, one failed result with the exception's
\* message is handed to basic_publish, the delivery is rejected with
\* requeue=False, and it is not acknowledged.
C13_Claim ==
    (Ended /\ ExceptionEscapes) =>
        /\ \E i \in PublishCalls :
              /\ Calls[i].result.status = "failed"
              /\ delivery.processed.exc # "none" =>
                    Calls[i].result.error = delivery.processed.msg
        /\ CallCount(Calls, "nack") = 1
        /\ \A i \in 1..Len(Calls) :
              /\ Calls[i].op = "nack" => ~Calls[i].requeue
              /\ Calls[i].op = "ack" => ~Calls[i].ok

C15_Claim ==
    (state = "closed" /\ delivery.escaped = "KeyboardInterrupt") => Settled(Calls)

\* The order of the connection's phases.
Rank(st) ==
    CASE st = "init" -> 0
      [] st = "connecting" -> 1
      [] st \in {"ready", "callback"} -> 2
      [] st = "draining" -> 3
      [] OTHER -> 4

\* C16: the phases only move forward; on_message runs on a delivery only while
\* the connection is open with every call of connect done (both exchanges, the
\* queue, its binding, prefetch 1); a closed connection stays closed and
\* receives nothing.
C16_Thm ==
    [][ /\ Rank(state') >= Rank(state)
        /\ (state = "ready" /\ state' = "callback") =>
              /\ link.conn = "open"
              /\ link.setup = Len(ConnectCalls)
              /\ link.prefetch = PrefetchCount
              /\ link.consumer
        /\ link.conn = "closed" =>
              /\ link'.conn = "closed"
              /\ tag' = tag
              /\ delivery' = delivery ]_vars

C16_Witness ==
    /\ state = "closed" /\ link.conn = "closed"
    /\ tag = MaxDeliveries
    /\ delivery.escaped = "KeyboardInterrupt"

\* C17: once a call of connect has failed, start has raised, nothing is
\* retried, the callback is never registered and no delivery is processed.
C17_Thm ==
    link.failed # 0 =>
        /\ state = "failed"
        /\ link.setup = link.failed - 1
        /\ ~link.consumer
        /\ tag = 0 /\ inbox = 0 /\ delivery = NoDelivery

C17_Witness ==
    /\ state = "failed"
    /\ ConnectCalls[link.failed] = "queue_declare"
    /\ link.conn = "open"

C19_Thm ==
    (reg.op = "register" /\ reg.exc = "none" /\ has(reg.before, reg.cls.site_id.v)) =>
        /\ Len(scrapers) = Len(reg.before)
        /\ list_sites(scrapers) = list_sites(reg.before)
        /\ scrapers[IndexOf(scrapers, reg.cls.site_id.v, 1)].cls = reg.cls
        /\ reg.cls.init = "none" =>
              /\ get(scrapers, reg.cls.site_id).found
              /\ get(scrapers, reg.cls.site_id).cls = reg.cls
        /\ reg.warning =
              Warning(reg.before[IndexOf(reg.before, reg.cls.site_id.v, 1)].cls.name,
                      reg.cls.name)

C19_Witness ==
    /\ reg.op = "register" /\ reg.cls = OtherOLXScraper
    /\ get(reg.before, Str("olx")).cls = OLXScraper
    /\ list_sites(scrapers) = <<"amazon", "olx">>
    /\ get(scrapers, Str("olx")).cls = OtherOLXScraper

\* The classes of a package that conform to the contract with a usable
\* identifier, in modules that discover scans and that load.
ValidCandidates(modules) ==
    UNION { {modules[k].classes[i] : i \in {j \in 1..Len(modules[k].classes) :
                                              Truthy(modules[k].classes[j].site_id)}} :
            k \in {m \in 1..Len(modules) :
                     ~modules[m].private /\ modules[m].error = "none"} }

\* C20: after discover every valid candidate of the package is registered,
\* whatever other candidates fail to load or to register, and the count
\* returned is the number of valid candidates.
C20_Claim ==
    reg.op = "discover" =>
        /\ reg.exc = "none"
        /\ \A cls \in ValidCandidates(reg.modules) : has(scrapers, cls.site_id.v)
        /\ reg.count = Cardinality(ValidCandidates(reg.modules))

\* C21: get returns a new object on every call for a registered identifier,
\* None for an unknown identifier, and lets the exception of a failing
\* constructor reach the caller instead of returning None.
C21_Thm ==
    /\ \A i, j \in 1..Len(instances) : i # j => instances[i] # instances[j]
    /\ reg.op = "get" =>
          LET i == IndexOf(scrapers, reg.arg.v, 1)
          IN  IF i = 0 THEN reg.exc = "none" /\ reg.count = 0
              ELSE IF scrapers[i].cls.init # "none"
              THEN reg.exc = scrapers[i].cls.init /\ reg.count = 0
              ELSE /\ reg.exc = "none" /\ reg.count = 1
                   /\ instances[Len(instances)].cls = scrapers[i].cls

C21_Witness ==
    /\ reg.op = "get" /\ reg.arg = Str("olx")
    /\ Len(instances) = 2
    /\ instances[1].cls = OLXScraper /\ instances[2].cls = OLXScraper
    /\ instances[1].id # instances[2].id

\* C22: register of a class whose site_id is None or empty raises ValueError
\* and leaves the registry as it was.
C22_Thm ==
    (reg.op = "register" /\ ~Truthy(reg.cls.site_id)) =>
        /\ reg.exc = "ValueError"
        /\ scrapers = reg.before

C22_Witness ==
    /\ reg.op = "register" /\ reg.cls = EmptyIdScraper
    /\ reg.exc = "ValueError"
    /\ list_sites(scrapers) = <<"olx", "amazon">>

\* The identifiers has and get_scraper_info are asked about.
AskedIds == {"olx", "amazon", "broken", "x", ""}

\* C23: list_sites holds each registered identifier once; has(id) is true
\* exactly for these identifiers and exactly when get_scraper_info(id) does not
\* return None; and every call leaves the identifiers listed so far in their
\* places, adding new ones at the end.
C23_Thm ==
    /\ [](/\ \A i, j \in 1..Len(scrapers) :
                list_sites(scrapers)[i] = list_sites(scrapers)[j] => i = j
          /\ \A id \in AskedIds :
                /\ has(scrapers, id) <=> InSeq(id, list_sites(scrapers))
                /\ has(scrapers, id) <=>
                      LET info == get_scraper_info(scrapers, Str(id))
                      IN  ~(info.exc = "none" /\ ~info.found))
    /\ [][ /\ Len(scrapers') >= Len(scrapers)
           /\ SubSeq(list_sites(scrapers'), 1, Len(scrapers)) = list_sites(scrapers)
         ]_vars

C23_Witness ==
    /\ reg.op = "register" /\ reg.cls = OtherOLXScraper
    /\ list_sites(reg.before) = <<"olx", "amazon", "broken">>
    /\ list_sites(scrapers) = <<"olx", "amazon", "broken">>
    /\ scrapers[1].cls = OtherOLXScraper

\* The action of the dispatched job is one of the handler's declared operations.
Declared ==
    /\ call.op = "execute"
    /\ call.action.t = "str"
    /\ InSeq(call.action.v, get_available_actions(call.cls))

\* C24: whenever execute invokes an operation it returns a result whose
\* metadata contains started_at, completed_at and duration_ms.
C24_Claim ==
    Declared =>
        /\ call.ret.exc = "none"
        /\ TimingKeys \subseteq call.ret.val.metadata.keys

\* C25: every metadata key the handler set on the result it returned is in
\* the published result's metadata with the handler's value.
C25_Claim ==
    Declared =>
        LET returned == Invoke(call.cls, call.action.v, call.payload, call.net)
        IN  (returned.exc = "none" /\ returned.val # NoResult) =>
                returned.val.metadata.handler \subseteq call.published.metadata.handler

PublishedResults == {Calls[i].result : i \in PublishCalls}

\* C26: every published result contains job_id, site_id, action, status, data,
\* error and metadata, and its metadata contains processed_at.
C26_Claim ==
    state = "callback" =>
        \A r \in PublishedResults :
            /\ r.job_id # Absent /\ r.site_id # Absent /\ r.action # Absent
            /\ r.status \in Statuses
            /\ "processed_at" \in r.metadata.keys

\* C27: a published result with status completed has error None and one with
\* status failed has an error; the same holds of every result an operation of
\* a registered handler returns, which process_job copies into the envelope.
C27_Thm ==
    state = "callback" =>
        /\ \A r \in PublishedResults :
              /\ r.status = "completed" => r.error = None
              /\ r.status = "failed" => r.error # None
        /\ (IsJob /\ Registered /\ Supported) =>
              LET returned == Invoke(Handler, JobAction.v, JobPayload, delivery.net)
              IN  (returned.exc = "none" /\ returned.val # NoResult) =>
                     /\ returned.val.status = "completed" => returned.val.error = None
                     /\ returned.val.status = "failed" => returned.val.error # None
                     /\ LET r == job_result(JobId, TheJob.site_id, JobAction, returned.val)
                        IN  r.status = returned.val.status /\ r.error = returned.val.error

C27_Witness ==
    /\ Ended /\ WellFormed /\ Registered /\ Supported
    /\ Invoke(Handler, JobAction.v, JobPayload, delivery.net).val.status = "completed"
    /\ Calls[1].op = "publish" /\ Calls[1].ok
    /\ Calls[1].result.status = "failed"
    /\ Calls[1].result.error # None

\* C28: execute invokes the operation exactly when the action is one of
\* get_available_actions(), and answers every other name with a failed result.
C28_Claim ==
    call.op = "execute" =>
        /\ call.invoked <=> Declared
        /\ ~Declared => (call.ret.exc = "none" /\ call.ret.val.status = "failed")

\* C29: for an action that names an attribute which is not callable, execute
\* returns a failed result with an error and invokes nothing.
C29_Claim ==
    (/\ call.op = "execute" /\ call.action.t = "str"
     /\ hasattr(call.cls, call.action.v)
     /\ ~AttrNamed(call.cls.dir, call.action.v).callable) =>
        /\ ~call.invoked
        /\ call.ret.exc = "none"
        /\ call.ret.val.status = "failed"
        /\ call.ret.val.error # None

\* C30: execute is called with the action and the payload the job carries,
\* with "search_product" and {} for a missing key; every result process_job
\* returns has the job's job_id, and every result published for a job without
\* job_id has job_id "unknown".
C30_Thm ==
    (state = "callback" /\ IsJob) =>
        /\ delivery.processed.executed =>
              /\ delivery.processed.action =
                    IF TheJob.action = Absent THEN Str("search_product") ELSE TheJob.action
              /\ delivery.processed.payload =
                    IF TheJob.payload = Absent THEN Obj({}) ELSE TheJob.payload
        /\ delivery.processed.exc = "none" =>
              delivery.processed.val.job_id =
                  IF TheJob.job_id = Absent THEN Str("unknown") ELSE TheJob.job_id
        /\ TheJob.job_id = Absent =>
              \A r \in PublishedResults : r.job_id = Str("unknown")

C30_Witness ==
    /\ Ended /\ IsJob
    /\ TheJob.action = Absent /\ TheJob.payload = Absent /\ TheJob.job_id = Absent
    /\ delivery.processed.executed
    /\ delivery.processed.action = Str("search_product")
    /\ delivery.processed.payload = Obj({})

\* C31: once the consumer has left startup, no step changes the registry:
\* whatever on_message does with a delivery, the registered identifiers and
\* the class bound to each are the same before and after it.
C31_Thm ==
    [][state # "init" => scrapers' = scrapers]_vars

C31_Witness ==
    /\ Ended /\ IsJob /\ Registered
    /\ tag = MaxDeliveries
    /\ delivery.processed.looked_up
    /\ delivery.processed.executed
    /\ list_sites(scrapers) = <<"olx", "amazon">>
    /\ Handler = AmazonScraper

\* C32: get_registry makes one registry and runs discover once, on the first
\* call: every object it returns is the one the global holds, and the numbers
\* of registries made and of discover runs are 1 from the first call on,
\* also when that discovery registered nothing or raised.
C32_Thm ==
    /\ registry.returned \subseteq {registry.id}
    /\ Cardinality(registry.returned) <= 1
    /\ registry.made = (IF registry.id = 0 THEN 0 ELSE 1)
    /\ registry.discovers = registry.made
    /\ reg.op = "get_registry" =>
          /\ registry.id = 1
          /\ reg.count = 0 => (scrapers = reg.before /\ registry.returned = {1})

C32_Witness ==
    /\ reg.op = "get_registry"
    /\ reg.count = 0
    /\ reg.before = <<>> /\ scrapers = <<>>
    /\ registry.returned = {1}
    /\ registry.discovers = 1

\* C33: the count discover returns on an empty registry is the number of
\* identifiers list_sites() gives afterwards, also when a class or an
\* identifier is found in more than one module.
C33_Claim ==
    (reg.op = "discover" /\ reg.before = <<>> /\ reg.exc = "none") =>
        reg.count = Len(list_sites(scrapers))

\* C34: a delivery whose processing has ended, whatever its outcome, is
\* followed by the dispatcher waiting for the next delivery: the step that
\* takes the consumer out of the callback takes it back to ready.
C34_Claim ==
    [][(Ended /\ state' # state) => state' = "ready"]_vars

\* C35: once start has ended, by returning or by raising, no connection that
\* was opened is still open.
C35_Claim ==
    state \in {"failed", "closed"} => link.conn # "open"

====
